---- MODULE Spec2Model ----
(***************************************************************************)
(* Warline: the simulation engine of src/src/engine/Game.ts, Unit.ts and   *)
(* the combat helpers (findTarget, applyDamageToUnit, applyDamageToTower). *)
(*                                                                         *)
(* Numbers.  The engine computes on JavaScript numbers.  The model uses    *)
(* fixed point: a position is a multiple of 1/PX pixel and a time a        *)
(* multiple of 1/SEC second, so that every constant of the source          *)
(* (1.2 s, 36 px/s, (20+18)/2 px, ...) is an integer and every sum,        *)
(* difference and comparison of the code is exact.                         *)
(***************************************************************************)
EXTENDS Integers, Sequences, FiniteSets, TLC

PX == 10
SEC == 20

\* ---------------------------------------------------------------- bounds
\* Widths passed to createGame(width, height), in pixels.
NarrowWidth == 100
WideWidth == 120
\* Hits of a melee unit (dmg 30) a tower is away from destruction at the
\* start of the explored part of a match.
TowerHitsLeft == 2
\* Simulated time explored, in 1/SEC s.
MaxTime == 148
\* Commands (spawnUnit, granted or denied, setPlayerOrder, placeFlag)
\* explored per run; update and the scripted enemy spawner are not commands.
MaxCommands == 3

\* Scenario E: distance in px of the lone unit from the enemy tower, and the
\* simulated time explored under the driver's loop, in 1/SEC s.
ScenarioDistance == 130
MaxLoopTime == 90

\* Length of the unit arrays findTarget is applied to as a function.
MaxFindUnits == 3

\* Simulated time explored with the long updates, in 1/SEC s.
MaxLongTime == 248

Teams == {"player", "enemy"}
UnitTypes == {"melee", "ranged"}
Orders == {"attack", "advance", "retreat", "moveToFlag"}
\* A null reference (flag, flagTarget): the empty tuple; a point is <<x, y>>.
NullPoint == <<>>
\* gameOver: "null", or the winner of { winner }.
NoGameOver == "null"

Opponent(team) == IF team = "player" THEN "enemy" ELSE "player"
Max(a, b) == IF a >= b THEN a ELSE b
Abs(a) == IF a >= 0 THEN a ELSE -a
Sign(a) == IF a > 0 THEN 1 ELSE IF a < 0 THEN -1 ELSE 0
Dir(team) == IF team = "player" THEN 1 ELSE -1

COST(type) == IF type = "melee" THEN 100 ELSE 150
RESPAWN(type) == IF type = "melee" THEN 4 * SEC ELSE 5 * SEC

VARIABLES
  units,        \* state.units: the live collection, in array order
  towers,       \* state.towers: <<t1 (player), t2 (enemy)>>
  time,         \* state.time
  width,        \* state.width (pixels)
  energy,       \* state.energy
  cooldowns,    \* state.cooldowns
  kills,        \* state.kills
  flag,         \* state.flag
  gameOver,     \* state.gameOver
  currentOrder, \* state.currentOrder
  energyTimer,            \* closure variable of createGame
  enemySpawnAccumulator,  \* closure variable of createGame
  nextUnitId,   \* _id of Unit.ts
  commands,     \* number of commands issued so far
  last          \* the last call: its name, arguments, result and locals

vars == <<units, towers, time, width, energy, cooldowns, kills, flag, gameOver,
          currentOrder, energyTimer, enemySpawnAccumulator, nextUnitId,
          commands, last>>

\* ------------------------------------------------------- Unit.ts
\* createUnit: the two stat tables.  pos.y is the constant baselineY and is
\* left out; cost, respawn, isRanged, knockback, category and the three
\* target filters are set here and read nowhere in the engine.
createUnit(type, x, team, id) ==
  IF type = "melee"
  THEN [id |-> id, type |-> type, team |-> team, x |-> x,
        size |-> 20 * PX, speed |-> 36 * PX, hp |-> 140, maxHp |-> 140,
        dmg |-> 30, range |-> 18 * PX, attackCooldown |-> (12 * SEC) \div 10,
        order |-> "attack", flagTarget |-> NullPoint,
        attackTimer |-> 0, alive |-> TRUE]
  ELSE [id |-> id, type |-> type, team |-> team, x |-> x,
        size |-> 18 * PX, speed |-> 48 * PX, hp |-> 80, maxHp |-> 80,
        dmg |-> 16, range |-> 110 * PX, attackCooldown |-> SEC,
        order |-> "attack", flagTarget |-> NullPoint,
        attackTimer |-> 0, alive |-> TRUE]

\* updateUnit: speed is in position units per second, delta in 1/SEC s.
updateUnit(unit, delta) ==
  IF ~unit.alive THEN unit
  ELSE [unit EXCEPT !.x = unit.x + Dir(unit.team) * ((unit.speed * delta) \div SEC),
                    !.attackTimer = unit.attackTimer + delta]

\* ------------------------------------------------------- Array helpers
\* Array.prototype.sort with a numeric comparator is stable: a sequence of
\* <<key, item>> pairs sorted by key, equal keys keeping their order.
InsertPair(s, p) ==
  LET n == Cardinality({i \in 1..Len(s) : s[i][1] <= p[1]})
  IN  SubSeq(s, 1, n) \o <<p>> \o SubSeq(s, n + 1, Len(s))

RECURSIVE SortPairs(_)
SortPairs(s) ==
  IF Len(s) = 0 THEN <<>>
  ELSE InsertPair(SortPairs(SubSeq(s, 1, Len(s) - 1)), s[Len(s)])

\* findIndex(x => x.id === id): the first index, 0 when there is none.
FindIndex(us, id) ==
  IF \E i \in 1..Len(us) : us[i].id = id
  THEN CHOOSE i \in 1..Len(us) : us[i].id = id /\ \A j \in 1..(i - 1) : us[j].id # id
  ELSE 0

\* towers.find(t => t.team !== team): the first tower of the other team.
EnemyTowerIdx(tw, team) ==
  CHOOSE i \in 1..Len(tw) : tw[i].team # team /\ \A j \in 1..(i - 1) : tw[j].team = team

\* ------------------------------------------------------- CombatSystem
\* The alive units of the other team strictly ahead of `unit`, nearest
\* first: filter(...).sort(by |dx|), as indices into `us`.
Items(sorted) == [k \in 1..Len(sorted) |-> sorted[k][2]]

ByDistance(unit, us, idx) ==
  Items(SortPairs([k \in 1..Len(idx) |-> <<Abs(us[idx[k]].x - unit.x), idx[k]>>]))

\* EnemiesAhead without the u.alive test of line 25.
EnemiesAhead_ignoresAlive(unit, us) ==
  ByDistance(unit, us,
             SelectSeq([i \in 1..Len(us) |-> i],
                       LAMBDA i : us[i].team # unit.team
                                  /\ Sign(us[i].x - unit.x) = Dir(unit.team)))

EnemiesAhead(unit, us) ==
  ByDistance(unit, us,
             SelectSeq([i \in 1..Len(us) |-> i],
                       LAMBDA i : us[i].alive /\ us[i].team # unit.team
                                  /\ Sign(us[i].x - unit.x) = Dir(unit.team)))

NoTarget == [kind |-> "none", unit |-> 0, tower |-> "none"]

\* findTarget 28-44, given the sorted enemiesAhead of lines 24-26.
TargetAmong(unit, us, tw, enemiesAhead) ==
  LET first == us[enemiesAhead[1]]
      centerDist == Abs(first.x - unit.x)
      edgeDist == Max(0, centerDist - (first.size + unit.size) \div 2)
      enemyTower == tw[EnemyTowerIdx(tw, unit.team)]
      centerDistT == Abs(enemyTower.x - unit.x)
      edgeDistT == Max(0, centerDistT - unit.size \div 2)
  IN  IF Len(enemiesAhead) > 0 /\ edgeDist <= unit.range
      THEN [kind |-> "unit", unit |-> first.id, tower |-> "none"]
      ELSE IF edgeDistT <= unit.range
      THEN [kind |-> "tower", unit |-> 0, tower |-> enemyTower.id]
      ELSE NoTarget

findTarget(unit, us, tw) == TargetAmong(unit, us, tw, EnemiesAhead(unit, us))

\* applyDamageToUnit with the alive test off by one (hp >= 0).
applyDamageToUnit_aliveAtZero(target, dmg) ==
  LET hp == Max(0, target.hp - dmg)
  IN  [target EXCEPT !.hp = hp, !.alive = (hp >= 0)]

applyDamageToUnit(target, dmg) ==
  LET hp == Max(0, target.hp - dmg)
  IN  [target EXCEPT !.hp = hp, !.alive = (hp > 0)]

applyDamageToTower(t, dmg) ==
  LET hp == Max(0, t.hp - dmg)
  IN  [t EXCEPT !.hp = hp]

\* ------------------------------------------------------- Game.ts
makeTower(id, team, x) ==
  [id |-> id, team |-> team, x |-> x, hp |-> 1000, maxHp |-> 1000]

\* The engine's mutable state as one value: GameState plus the closure
\* variables of createGame and the id counter of Unit.ts.
Game ==
  [units |-> units, towers |-> towers, time |-> time, width |-> width,
   energy |-> energy, cooldowns |-> cooldowns, kills |-> kills, flag |-> flag,
   gameOver |-> gameOver, currentOrder |-> currentOrder,
   energyTimer |-> energyTimer,
   enemySpawnAccumulator |-> enemySpawnAccumulator,
   nextUnitId |-> nextUnitId]

createGame(w) ==
  [units |-> <<>>,
   towers |-> <<makeTower("t1", "player", 30 * PX),
                makeTower("t2", "enemy", (w - 30) * PX)>>,
   time |-> 0, width |-> w,
   energy |-> [player |-> 200, enemy |-> 200],
   cooldowns |-> [player |-> [melee |-> 0, ranged |-> 0],
                  enemy |-> [melee |-> 0, ranged |-> 0]],
   kills |-> [player |-> 0, enemy |-> 0],
   flag |-> NullPoint, gameOver |-> NoGameOver, currentOrder |-> "attack",
   energyTimer |-> 0, enemySpawnAccumulator |-> 0, nextUnitId |-> 1]

\* The gate of spawnUnit without its cooldown test.
SpawnGate_noCooldown(g, team, type) ==
  ~(g.energy[team] < COST(type))

\* spawnUnit(team, type): the new state and the value returned.
SpawnGate(g, team, type) ==
  ~(g.energy[team] < COST(type)) /\ ~(g.cooldowns[team][type] > 0)

\* The spawned unit without the inherited order (line 84 left out).
SpawnedUnit_noOrder(g, team, type) ==
  LET x == IF team = "player" THEN 60 * PX ELSE (g.width - 60) * PX
      spawnOffset == IF team = "player" THEN -8 * PX ELSE 8 * PX
  IN  createUnit(type, x + spawnOffset, team, g.nextUnitId)

SpawnedUnit(g, team, type) ==
  LET x == IF team = "player" THEN 60 * PX ELSE (g.width - 60) * PX
      spawnOffset == IF team = "player" THEN -8 * PX ELSE 8 * PX
      u == createUnit(type, x + spawnOffset, team, g.nextUnitId)
  IN  IF team = "player" THEN [u EXCEPT !.order = g.currentOrder] ELSE u

spawnUnit(g, team, type) ==
  IF ~SpawnGate(g, team, type)
  THEN [g |-> g, ret |-> FALSE]
  ELSE [g |-> [g EXCEPT !.energy[team] = @ - COST(type),
                        !.cooldowns[team][type] = RESPAWN(type),
                        !.units = Append(@, SpawnedUnit(g, team, type)),
                        !.nextUnitId = @ + 1],
        ret |-> TRUE]

\* setPlayerOrder without the clearing of the flag target (line 96 left out).
setPlayerOrder_keepsFlagTarget(g, order) ==
  LET Ordered(u) == IF u.team = "player" THEN [u EXCEPT !.order = order] ELSE u
  IN  [g EXCEPT !.currentOrder = order,
                !.units = [i \in 1..Len(g.units) |-> Ordered(g.units[i])]]

setPlayerOrder(g, order) ==
  LET Ordered(u) ==
        IF u.team = "player"
        THEN [u EXCEPT !.order = order,
                       !.flagTarget = IF order # "moveToFlag" THEN NullPoint
                                      ELSE u.flagTarget]
        ELSE u
  IN  [g EXCEPT !.currentOrder = order,
                !.units = [i \in 1..Len(g.units) |-> Ordered(g.units[i])]]

placeFlag(g, x, y) ==
  LET Flagged(u) ==
        IF u.team = "player"
        THEN [u EXCEPT !.order = "moveToFlag", !.flagTarget = <<x, y>>]
        ELSE u
  IN  [g EXCEPT !.flag = <<x, y>>,
                !.currentOrder = "moveToFlag",
                !.units = [i \in 1..Len(g.units) |-> Flagged(g.units[i])]]

\* ---- update(delta), Game.ts 113-294, phase by phase ------------------

\* The timers phase with the cooldown decay not floored at 0 (line 121
\* without its Math.max).
Timers_noFloor(g, delta) ==
  LET et == g.energyTimer + delta
      tick == et >= 5 * SEC
  IN  [g EXCEPT
         !.time = @ + delta,
         !.energyTimer = IF tick THEN et - 5 * SEC ELSE et,
         !.cooldowns = [t \in Teams |-> [k \in UnitTypes |->
                          g.cooldowns[t][k] - delta]],
         !.energy = IF tick THEN [t \in Teams |-> g.energy[t] + 50] ELSE @,
         !.units = [i \in 1..Len(g.units) |->
                      IF ~g.units[i].alive THEN g.units[i]
                      ELSE [g.units[i] EXCEPT !.attackTimer = @ + delta]]]

\* The timers phase with the energy accumulator kept at the tick (line 127
\* left out), so that the income repeats.
Timers_noTimerReset(g, delta) ==
  LET et == g.energyTimer + delta
      tick == et >= 5 * SEC
  IN  [g EXCEPT
         !.time = @ + delta,
         !.energyTimer = et,
         !.cooldowns = [t \in Teams |-> [k \in UnitTypes |->
                          Max(0, g.cooldowns[t][k] - delta)]],
         !.energy = IF tick THEN [t \in Teams |-> g.energy[t] + 50] ELSE @,
         !.units = [i \in 1..Len(g.units) |->
                      IF ~g.units[i].alive THEN g.units[i]
                      ELSE [g.units[i] EXCEPT !.attackTimer = @ + delta]]]

\* The timers phase granting the income once per threshold crossed (a
\* loop in place of the if of line 126).
Timers_incomePerThreshold(g, delta) ==
  LET et == g.energyTimer + delta
      ticks == et \div (5 * SEC)
  IN  [g EXCEPT
         !.time = @ + delta,
         !.energyTimer = et - ticks * 5 * SEC,
         !.cooldowns = [t \in Teams |-> [k \in UnitTypes |->
                          Max(0, g.cooldowns[t][k] - delta)]],
         !.energy = [t \in Teams |-> g.energy[t] + 50 * ticks],
         !.units = [i \in 1..Len(g.units) |->
                      IF ~g.units[i].alive THEN g.units[i]
                      ELSE [g.units[i] EXCEPT !.attackTimer = @ + delta]]]

\* 115-137: time, energy timer, cooldown decay, the energy tick, and the
\* attack timers of all (alive) units.
Timers(g, delta) ==
  LET et == g.energyTimer + delta
      tick == et >= 5 * SEC
  IN  [g EXCEPT
         !.time = @ + delta,
         !.energyTimer = IF tick THEN et - 5 * SEC ELSE et,
         !.cooldowns = [t \in Teams |-> [k \in UnitTypes |->
                          Max(0, g.cooldowns[t][k] - delta)]],
         !.energy = IF tick THEN [t \in Teams |-> g.energy[t] + 50] ELSE @,
         !.units = [i \in 1..Len(g.units) |->
                      IF ~g.units[i].alive THEN g.units[i]
                      ELSE [g.units[i] EXCEPT !.attackTimer = @ + delta]]]

\* 148-163: the attack of unit i this tick, NoTarget when it does not attack.
\* The attack decision obeying the order: a retreating unit does not attack.
Attack_notWhenRetreating(u, target) ==
  IF u.alive /\ target.kind # "none" /\ u.attackTimer >= u.attackCooldown
     /\ u.order # "retreat"
  THEN target ELSE NoTarget

Attack(u, target) ==
  IF u.alive /\ target.kind # "none" /\ u.attackTimer >= u.attackCooldown
  THEN target ELSE NoTarget

AttackOf(us, tw, i) == Attack(us[i], findTarget(us[i], us, tw))

\* The accumulation overwriting instead of summing.
AddDamage_overwrite(acc, id, dmg) == [acc EXCEPT ![id] = dmg]

\* 154, 158: damage[id] = (damage[id] || 0) + dmg.
AddDamage(acc, id, dmg) == [acc EXCEPT ![id] = @ + dmg]

\* 144-163: the three accumulators after the loop over state.units.  A
\* missing key of damageToUnit / damageToTower is the value 0.  attacks is
\* what the loop logs (Log.debug('ATTACK', ...)): who attacked what.
Record(acc, u, target) ==
  IF target.kind = "unit"
  THEN [acc EXCEPT !.damageToUnit = AddDamage(@, target.unit, u.dmg),
                   !.attackersToReset = Append(@, u.id),
                   !.attacks = Append(@, [by |-> u.id, on |-> target])]
  ELSE IF target.kind = "tower"
  THEN [acc EXCEPT !.damageToTower = AddDamage(@, target.tower, u.dmg),
                   !.attackersToReset = Append(@, u.id),
                   !.attacks = Append(@, [by |-> u.id, on |-> target])]
  ELSE acc

\* The loop with the damage taken into account at once: a unit that the
\* units iterated before it have already brought to hp 0 does not attack.
RECURSIVE Accumulate_killedCannotAttack(_, _, _, _)
Accumulate_killedCannotAttack(us, tw, i, acc) ==
  IF i > Len(us) THEN acc
  ELSE Accumulate_killedCannotAttack(us, tw, i + 1,
         IF acc.damageToUnit[us[i].id] >= us[i].hp THEN acc
         ELSE Record(acc, us[i], AttackOf(us, tw, i)))

RECURSIVE Accumulate(_, _, _, _)
Accumulate(us, tw, i, acc) ==
  IF i > Len(us) THEN acc
  ELSE Accumulate(us, tw, i + 1, Record(acc, us[i], AttackOf(us, tw, i)))

NoDamage(us, tw) ==
  [damageToUnit |-> [id \in {us[i].id : i \in 1..Len(us)} |-> 0],
   damageToTower |-> [id \in {tw[i].id : i \in 1..Len(tw)} |-> 0],
   attackersToReset |-> <<>>, attacks |-> <<>>]

\* 165-179: accumulated unit damage applied to the copies.
DamagedUnits(us, dmgU) ==
  [i \in 1..Len(us) |->
     IF dmgU[us[i].id] > 0 /\ FindIndex(us, us[i].id) = i
     THEN applyDamageToUnit(us[i], dmgU[us[i].id]) ELSE us[i]]

\* 172-176: a unit of `team` that was alive and is not after its damage
\* counts for the other team.
KilledOf(us, dmgU, team) ==
  {i \in 1..Len(us) : /\ us[i].team = team
                       /\ dmgU[us[i].id] > 0 /\ FindIndex(us, us[i].id) = i
                       /\ us[i].alive
                       /\ ~applyDamageToUnit(us[i], dmgU[us[i].id]).alive}

\* The kill credited to the victim's own team.
CountKills_ownTeam(k, us, dmgU) ==
  [player |-> k.player + Cardinality(KilledOf(us, dmgU, "player")),
   enemy |-> k.enemy + Cardinality(KilledOf(us, dmgU, "enemy"))]

CountKills(k, us, dmgU) ==
  [player |-> k.player + Cardinality(KilledOf(us, dmgU, "enemy")),
   enemy |-> k.enemy + Cardinality(KilledOf(us, dmgU, "player"))]

\* 181-188
DamagedTowers(tw, dmgT) ==
  [i \in 1..Len(tw) |->
     IF dmgT[tw[i].id] > 0 THEN applyDamageToTower(tw[i], dmgT[tw[i].id])
     ELSE tw[i]]

\* The condition of line 192 without its !state.gameOver.
TowerEndsGame_noGuard(t, go) == t.hp <= 0

\* 192: the condition under which a tower ends the game.
TowerEndsGame(t, go) == t.hp <= 0 /\ go = NoGameOver

\* 191-202: the loop over newTowers, in array order; acc is
\* [gameOver, units, destroyed], destroyed being the towers the loop logs
\* as destroyed (Log.warn('GAME', ...)).
RECURSIVE TowerCheck(_, _, _)
TowerCheck(tw, i, acc) ==
  IF i > Len(tw) THEN acc
  ELSE IF TowerEndsGame(tw[i], acc.gameOver)
  THEN LET loser == tw[i].team
       IN  TowerCheck(tw, i + 1,
             [gameOver |-> Opponent(loser),
              destroyed |-> Append(acc.destroyed, tw[i].id),
              units |-> [j \in 1..Len(acc.units) |->
                           IF acc.units[j].team = loser
                           THEN [acc.units[j] EXCEPT !.alive = FALSE]
                           ELSE acc.units[j]]])
  ELSE TowerCheck(tw, i + 1, acc)

\* The collection kept as it is, the units not alive included.
Purge_keepsDead(us) == us

\* 206, 218: newUnits.filter(u => u.alive)
Purge(us) == SelectSeq(us, LAMBDA u : u.alive)

\* 211-215
ResetTimers(us, attackers) ==
  [i \in 1..Len(us) |->
     IF \E k \in 1..Len(attackers) : attackers[k] = us[i].id
           /\ FindIndex(us, attackers[k]) = i
     THEN [us[i] EXCEPT !.attackTimer = 0] ELSE us[i]]

\* 221-231: the scripted enemy spawner.
EnemyAI(g, delta) ==
  LET acc == g.enemySpawnAccumulator + delta
  IN  IF acc >= SEC
      THEN LET g0 == [g EXCEPT !.enemySpawnAccumulator = 0]
           IN  IF g0.energy.enemy >= COST("ranged") /\ g0.cooldowns.enemy.ranged <= 0
               THEN spawnUnit(g0, "enemy", "ranged").g
               ELSE IF g0.energy.enemy >= COST("melee") /\ g0.cooldowns.enemy.melee <= 0
               THEN spawnUnit(g0, "enemy", "melee").g
               ELSE g0
      ELSE [g EXCEPT !.enemySpawnAccumulator = acc]

\* 261: blocked by the nearest enemy unit ahead.
BlockedBy(u, b) == Abs(b.x - u.x) <= (u.size + b.size) \div 2 + 1 * PX

\* 234-275: one iteration of the movement loop, on unit i of the live
\* collection (mutated in place, so later iterations see the result).
MoveGiven(us, tw, i, delta, aheadUnits) ==
  LET u == us[i]
      dir == Dir(u.team)
      hasAhead == Len(aheadUnits) > 0
      nearestAheadEnemy == us[aheadUnits[1]]
      enemyTower == tw[EnemyTowerIdx(tw, u.team)]
      distToNearestEnemy ==
        Abs(nearestAheadEnemy.x - u.x) - (nearestAheadEnemy.size + u.size) \div 2
      distToTower == Abs(enemyTower.x - u.x)
      inAttackRangeEnemy == hasAhead /\ distToNearestEnemy <= u.range
      inAttackRangeTower == distToTower <= u.range
      blockingUnit == nearestAheadEnemy
      blockedByUnit == hasAhead /\ BlockedBy(u, blockingUnit)
  IN  IF ~u.alive THEN us
      ELSE IF ~blockedByUnit /\ ~inAttackRangeEnemy /\ ~inAttackRangeTower
      THEN LET updated == updateUnit(u, delta)
           IN  [us EXCEPT ![i] = [u EXCEPT !.x = updated.x,
                                           !.attackTimer = updated.attackTimer]]
      ELSE IF blockedByUnit
      THEN LET gap == (blockingUnit.size + u.size) \div 2 + 1 * PX
           IN  [us EXCEPT ![i] = [u EXCEPT !.x = blockingUnit.x - dir * gap]]
      ELSE us

MoveUnit(us, tw, i, delta) ==
  MoveGiven(us, tw, i, delta, EnemiesAhead(us[i], us))

RECURSIVE Movement(_, _, _, _)
Movement(us, tw, i, delta) ==
  IF i > Len(us) THEN us
  ELSE Movement(MoveUnit(us, tw, i, delta), tw, i + 1, delta)

\* 279: state.units.slice().sort((a, b) => a.pos.x - b.pos.x), as indices
\* into the live collection (the sorted array holds the same objects).
SortedByX(us) == Items(SortPairs([i \in 1..Len(us) |-> <<us[i].x, i>>]))

\* 281-292: one step of the anti-overlap sweep, on sorted[k-1], sorted[k].
Separate(us, sorted, k) ==
  LET prev == us[sorted[k - 1]]
      cur == us[sorted[k]]
      minGapAdjust == 1 * PX
      desired == (prev.size + cur.size) \div 2 + minGapAdjust
      actual == Abs(cur.x - prev.x)
      dirCur == Dir(cur.team)
  IN  IF prev.team = cur.team /\ actual < desired
      THEN [us EXCEPT ![sorted[k]] = [cur EXCEPT !.x = prev.x - dirCur * desired]]
      ELSE us

RECURSIVE Sweep(_, _, _)
Sweep(us, sorted, k) ==
  IF k > Len(sorted) THEN us
  ELSE Sweep(Separate(us, sorted, k), sorted, k + 1)

AntiOverlap(us) == Sweep(us, SortedByX(us), 2)

\* 165-202: damage applied and the towers checked, given the accumulators.
Resolved(g1, acc, newTowers) ==
  TowerCheck(newTowers, 1,
             [gameOver |-> g1.gameOver, destroyed |-> <<>>,
              units |-> DamagedUnits(g1.units, acc.damageToUnit)])

Killed(us, dmgU) ==
  {us[i].id : i \in KilledOf(us, dmgU, "player") \cup KilledOf(us, dmgU, "enemy")}

CombatGiven(g1, acc, newTowers, chk) ==
  [g |-> [g1 EXCEPT !.kills = CountKills(g1.kills, g1.units, acc.damageToUnit),
                    !.gameOver = chk.gameOver],
   newUnits |-> chk.units, newTowers |-> newTowers, acc |-> acc,
   log |-> [attacks |-> acc.attacks, damageToUnit |-> acc.damageToUnit,
            damageToTower |-> acc.damageToTower,
            killed |-> Killed(g1.units, acc.damageToUnit),
            destroyed |-> chk.destroyed]]

CombatWith(g1, acc, newTowers) ==
  CombatGiven(g1, acc, newTowers, Resolved(g1, acc, newTowers))

CombatOn(g1, acc) == CombatWith(g1, acc, DamagedTowers(g1.towers, acc.damageToTower))

\* 139-209: combat on the state after the timers; the state at line 204,
\* with the locals of the loop.
Combat(g1) ==
  CombatOn(g1, Accumulate(g1.units, g1.towers, 1, NoDamage(g1.units, g1.towers)))

\* update without the early return of lines 204-209.
StopsAfterCombat_never(g) == FALSE

\* 204: the early return of update.
StopsAfterCombat(g) == g.gameOver # NoGameOver

\* 206-208: the final state of an update that ends the game or finds it
\* ended.
Stopped(c) == [c.g EXCEPT !.units = Purge(c.newUnits), !.towers = c.newTowers]

\* 211-219
Continued(c) ==
  [c.g EXCEPT !.units = Purge(ResetTimers(c.newUnits, c.acc.attackersToReset)),
              !.towers = c.newTowers]

\* 233-293
Moved(g3, delta) ==
  [g3 EXCEPT !.units = AntiOverlap(Movement(g3.units, g3.towers, 1, delta))]

AfterCombat(c, delta) ==
  [g |-> IF StopsAfterCombat(c.g) THEN Stopped(c)
         ELSE Moved(EnemyAI(Continued(c), delta), delta),
   log |-> c.log]

\* update(delta): the state after the call, and what the call logged.
update(g, delta) == AfterCombat(Combat(Timers(g, delta)), delta)

\* getSnapshot(): the GameState fields, units and towers copied.
getSnapshot(g) ==
  [units |-> g.units, towers |-> g.towers, time |-> g.time, width |-> g.width,
   energy |-> g.energy, cooldowns |-> g.cooldowns, kills |-> g.kills,
   flag |-> g.flag, gameOver |-> g.gameOver, currentOrder |-> g.currentOrder]

\* ------------------------------------------------------- the state machine
Widths == {NarrowWidth, WideWidth}
\* update's delta: the driver's frame cap of 0.05 s is 1; the engine itself
\* takes any delta.
Deltas == {24, 100}
\* Points of placeFlag (click coordinates).
FlagPoints == {<<45 * PX, 30 * PX>>}

\* Tower hp at the start of the explored part of the match: 1000 less the
\* melee hits already taken.
StartTowerHp == 1000 - 30 * (34 - TowerHitsLeft)

NoLog == [attacks |-> <<>>, damageToUnit |-> <<>>, damageToTower |-> <<>>,
          killed |-> {}, destroyed |-> <<>>]

\* The last call: its name, its arguments, the value it returned (spawnUnit)
\* and what it logged (update).
Call(op, args, ret, log) ==
  [op |-> op, args |-> args, ret |-> ret, log |-> log]

\* All variables of the engine set from one Game value.
Becomes(g) ==
  /\ units' = g.units
  /\ towers' = g.towers
  /\ time' = g.time
  /\ width' = g.width
  /\ energy' = g.energy
  /\ cooldowns' = g.cooldowns
  /\ kills' = g.kills
  /\ flag' = g.flag
  /\ gameOver' = g.gameOver
  /\ currentOrder' = g.currentOrder
  /\ energyTimer' = g.energyTimer
  /\ enemySpawnAccumulator' = g.enemySpawnAccumulator
  /\ nextUnitId' = g.nextUnitId

InitGame(w) ==
  LET g == createGame(w)
  IN  [g EXCEPT !.towers = [i \in 1..Len(g.towers) |->
                              [g.towers[i] EXCEPT !.hp = StartTowerHp]]]

Starts(g) ==
  /\ units = g.units
  /\ towers = g.towers
  /\ time = g.time
  /\ width = g.width
  /\ energy = g.energy
  /\ cooldowns = g.cooldowns
  /\ kills = g.kills
  /\ flag = g.flag
  /\ gameOver = g.gameOver
  /\ currentOrder = g.currentOrder
  /\ energyTimer = g.energyTimer
  /\ enemySpawnAccumulator = g.enemySpawnAccumulator
  /\ nextUnitId = g.nextUnitId
  /\ commands = 0
  /\ last = Call("createGame", <<g.width>>, FALSE, NoLog)

Init == \E w \in Widths : Starts(InitGame(w))

Updated(r, delta) ==
  /\ Becomes(r.g)
  /\ last' = Call("update", <<delta>>, FALSE, r.log)
  /\ UNCHANGED commands

Update(delta) ==
  /\ time + delta <= MaxTime
  /\ Updated(update(Game, delta), delta)

Spawned(r, team, type) ==
  /\ Becomes(r.g)
  /\ commands' = commands + 1
  /\ last' = Call("spawnUnit", <<team, type>>, r.ret, NoLog)

SpawnUnit(team, type) ==
  /\ commands < MaxCommands
  /\ Spawned(spawnUnit(Game, team, type), team, type)

SetPlayerOrder(order) ==
  /\ commands < MaxCommands
  /\ Becomes(setPlayerOrder(Game, order))
  /\ commands' = commands + 1
  /\ last' = Call("setPlayerOrder", <<order>>, FALSE, NoLog)

PlaceFlag(p) ==
  /\ commands < MaxCommands
  /\ Becomes(placeFlag(Game, p[1], p[2]))
  /\ commands' = commands + 1
  /\ last' = Call("placeFlag", p, FALSE, NoLog)

Next ==
  \/ \E delta \in Deltas : Update(delta)
  \/ \E team \in Teams, type \in UnitTypes : SpawnUnit(team, type)
  \/ \E order \in Orders : SetPlayerOrder(order)
  \/ \E p \in FlagPoints : PlaceFlag(p)

Spec == Init /\ [][Next]_vars

\* ------------------------------------------------------- the driver
\* GameCanvas (part_000): the game it creates and its animation-frame loop.
CanvasWidth == 900
\* 41: the cap of a frame's delta, 0.05 s.
FrameCap == (5 * SEC) \div 100
\* Milliseconds between two animation frames (0 for the first frame, 38).
FrameMs == {0, 50, 250}

\* 39-41: delta = Math.min(0.05, deltaMs / 1000), in 1/SEC s.
FrameDelta(deltaMs) ==
  IF (deltaMs * SEC) \div 1000 < FrameCap THEN (deltaMs * SEC) \div 1000
  ELSE FrameCap

\* Scenario E: a match in which the enemy has no energy and no unit left,
\* and a lone player melee unit stands ScenarioDistance px from the enemy
\* tower.
InitScenarioE ==
  [InitGame(CanvasWidth) EXCEPT
     !.units = <<createUnit("melee", (CanvasWidth - 30 - ScenarioDistance) * PX,
                            "player", 1)>>,
     !.nextUnitId = 2,
     !.energy = [player |-> 100, enemy |-> 0]]

InitLoop == Starts(InitScenarioE)

\* 37-48: one animation frame: game.update(delta) with the capped delta.
Frame(deltaMs) ==
  /\ time + FrameDelta(deltaMs) <= MaxLoopTime
  /\ Updated(update(Game, FrameDelta(deltaMs)), FrameDelta(deltaMs))

NextLoop == \E deltaMs \in FrameMs : Frame(deltaMs)

SpecLoop == InitLoop /\ [][NextLoop]_vars

\* ------------------------------------------- findTarget as a function
\* findTarget is exported (part_003:20) and takes any unit array: the
\* arrays here hold MaxFindUnits units of either team and type, alive or
\* not, at positions that put them level, behind, ahead within range, just
\* out of range and far away, on the canvas of the application.
FindXs == {40 * PX, 100 * PX, 138 * PX, 139 * PX, 860 * PX}

FindUnit(id, team, type, x, alive) ==
  [createUnit(type, x, team, id) EXCEPT !.alive = alive,
                                        !.hp = IF alive THEN @ ELSE 0]

\* What is chosen for each unit of the array: team, type, x, alive.
FindChoices == [1..MaxFindUnits -> Teams \X UnitTypes \X FindXs \X BOOLEAN]

FindArray(c) ==
  [i \in 1..MaxFindUnits |-> FindUnit(i, c[i][1], c[i][2], c[i][3], c[i][4])]

InitFind ==
  \E c \in FindChoices :
    Starts([createGame(CanvasWidth) EXCEPT !.units = FindArray(c),
                                           !.nextUnitId = MaxFindUnits + 1])

\* One call findTarget(units[i], units, towers); last.ret is its result.
FindTarget(i) ==
  /\ last.op = "createGame"
  /\ last' = Call("findTarget", <<i>>, findTarget(units[i], units, towers), NoLog)
  /\ UNCHANGED <<units, towers, time, width, energy, cooldowns, kills, flag,
                 gameOver, currentOrder, energyTimer, enemySpawnAccumulator,
                 nextUnitId, commands>>

NextFind == \E i \in 1..MaxFindUnits : FindTarget(i)

SpecFind == InitFind /\ [][NextFind]_vars

\* --------------------------------------------------------- long updates
\* update takes any delta (Game.ts 113): here also one of 10 s, which spans
\* two thresholds of the energy accumulator.
LongDeltas == {24, 100, 200}

LongUpdate(delta) ==
  /\ time + delta <= MaxLongTime
  /\ Updated(update(Game, delta), delta)

NextLong ==
  \/ \E delta \in LongDeltas : LongUpdate(delta)
  \/ \E team \in Teams, type \in UnitTypes : SpawnUnit(team, type)

SpecLong == Init /\ [][NextLong]_vars

\* ======================================================= properties
UnitIds(us) == {us[i].id : i \in 1..Len(us)}
UnitById(us, id) == us[FindIndex(us, id)]

\* The live collection as update(delta) sees it in its combat loop: every
\* attack timer delta later.
Aged(us, delta) ==
  [i \in 1..Len(us) |-> [us[i] EXCEPT !.attackTimer = @ + delta]]

\* The units of `us` whose attack is ready and whose target is unit v.
AttackersOf(us, tw, v) ==
  {i \in 1..Len(us) : /\ us[i].attackTimer >= us[i].attackCooldown
                       /\ findTarget(us[i], us, tw) =
                            [kind |-> "unit", unit |-> us[v].id, tower |-> "none"]}

RECURSIVE SumDmg(_, _)
SumDmg(us, S) ==
  IF S = {} THEN 0
  ELSE LET i == CHOOSE i \in S : TRUE IN us[i].dmg + SumDmg(us, S \ {i})

Pending(us, tw, v) == SumDmg(us, AttackersOf(us, tw, v))

\* The units of team t that the pending damage brings to hp 0.
Dying(us, tw, t) ==
  {v \in 1..Len(us) : us[v].team = t /\ Pending(us, tw, v) >= us[v].hp}

\* ---- C1 --------------------------------------------------------------
\* C1: in every reachable state every unit of the live collection has
\* alive <=> hp > 0 and 0 <= hp <= maxHp.
C1_LiveUnitsAliveAndHpInRange ==
  \A i \in 1..Len(units) :
    /\ units[i].alive <=> units[i].hp > 0
    /\ 0 <= units[i].hp /\ units[i].hp <= units[i].maxHp

\* An update has just killed a unit and left a damaged survivor.
C1_Witness ==
  /\ last.op = "update"
  /\ last.log.killed # {}
  /\ \E i \in 1..Len(units) :
       /\ units[i].hp < units[i].maxHp
       /\ units[i].id \in DOMAIN last.log.damageToUnit
       /\ last.log.damageToUnit[units[i].id] > 0

\* ---- C5 --------------------------------------------------------------
\* C5: gameOver is null in a fresh game, and once it is non-null no call
\* makes it null again or changes its winner.
C5_GameOverSetAtMostOnce ==
  /\ gameOver = NoGameOver
  /\ [][gameOver # NoGameOver => gameOver' = gameOver]_vars

\* The game is over and the tower of the recorded winner has fallen too.
C5_Witness ==
  /\ gameOver # NoGameOver
  /\ \A i \in 1..Len(towers) : towers[i].hp = 0
  /\ last.op = "update" /\ last.log.destroyed = <<>>

\* ---- C9 --------------------------------------------------------------
\* C9: spawnUnit(team, type) with energy[team] < cost[type] or
\* cooldown[team][type] > 0 returns false and leaves energy, cooldowns and
\* the live collection as they were.
C9_SpawnDenied ==
  [][(/\ last'.op = "spawnUnit"
      /\ \/ energy[last'.args[1]] < COST(last'.args[2])
         \/ cooldowns[last'.args[1]][last'.args[2]] > 0)
     => /\ last'.ret = FALSE
        /\ energy' = energy /\ cooldowns' = cooldowns /\ units' = units]_vars

\* Scenario C: a second player melee spawn right after the first is denied,
\* with energy still 100 and one unit.
C9_Witness ==
  /\ last.op = "spawnUnit" /\ last.args = <<"player", "melee">> /\ ~last.ret
  /\ energy.player = 100 /\ cooldowns.player.melee = RESPAWN("melee")
  /\ Len(units) = 1 /\ units[1].team = "player" /\ units[1].type = "melee"

\* ---- C10 -------------------------------------------------------------
\* C10: spawnUnit(team, type) with energy[team] >= cost[type] and
\* cooldown[team][type] = 0 returns true, debits exactly cost[type] (100,
\* 150), sets that cooldown to respawn[type] (4 s, 5 s), appends exactly one
\* alive unit of that team and type with hp = maxHp (140, 80), leaves the
\* other team's energy and cooldowns and all existing units unchanged; a
\* player unit has the currently broadcast order.
C10_SpawnGranted ==
  [][(/\ last'.op = "spawnUnit"
      /\ energy[last'.args[1]] >= COST(last'.args[2])
      /\ cooldowns[last'.args[1]][last'.args[2]] = 0)
     => LET team == last'.args[1]
            type == last'.args[2]
            other == Opponent(team)
            otherType == IF type = "melee" THEN "ranged" ELSE "melee"
            new == units'[Len(units')]
        IN  /\ last'.ret = TRUE
            /\ energy'[team] = energy[team] - (IF type = "melee" THEN 100 ELSE 150)
            /\ cooldowns'[team][type] = (IF type = "melee" THEN 4 * SEC ELSE 5 * SEC)
            /\ cooldowns'[team][otherType] = cooldowns[team][otherType]
            /\ energy'[other] = energy[other]
            /\ cooldowns'[other] = cooldowns[other]
            /\ Len(units') = Len(units) + 1
            /\ SubSeq(units', 1, Len(units)) = units
            /\ new.team = team /\ new.type = type /\ new.alive
            /\ new.hp = new.maxHp
            /\ new.hp = (IF type = "melee" THEN 140 ELSE 80)
            /\ new.id \notin UnitIds(units)
            /\ team = "player" => new.order = currentOrder]_vars

\* Scenario B with an order broadcast first: a granted player melee spawn on
\* a fresh game, the unit carrying an order other than the default.
C10_Witness ==
  /\ last.op = "spawnUnit" /\ last.args = <<"player", "melee">> /\ last.ret
  /\ energy.player = 100 /\ cooldowns.player.melee = 4 * SEC
  /\ Len(units) = 1 /\ units[1].hp = 140
  /\ units[1].order = currentOrder /\ currentOrder # "attack"

\* ---- C2 --------------------------------------------------------------
\* C2: for every tower t, in the update in which t.hp reaches 0 gameOver is
\* set with the winner opposing t, and after that update the live
\* collection holds no unit of t's team; for each tower at 0, whichever is
\* examined first.
C2_EveryFallenTowerEndsGame ==
  [][last'.op = "update"
     => \A i \in 1..Len(towers) :
          (towers[i].hp > 0 /\ towers'[i].hp = 0)
          => /\ gameOver' = Opponent(towers[i].team)
             /\ \A j \in 1..Len(units') : units'[j].team # towers[i].team]_vars

\* ---- C3 --------------------------------------------------------------
\* C3: after gameOver is set, every later update leaves both energies, all
\* cooldowns and every unit's position unchanged.
C3_FrozenAfterGameOver ==
  [][(gameOver # NoGameOver /\ last'.op = "update")
     => /\ energy' = energy
        /\ cooldowns' = cooldowns
        /\ \A i \in 1..Len(units), j \in 1..Len(units') :
             units[i].id = units'[j].id => units'[j].x = units[i].x]_vars

\* ---- C4 --------------------------------------------------------------
\* C4: once gameOver is set, spawnUnit adds no unit and debits no energy,
\* and no later update changes a unit's hp, a tower's hp or a kill counter.
C4_NoSpawnNoDamageAfterGameOver ==
  [][gameOver # NoGameOver
     => /\ last'.op = "spawnUnit" => (units' = units /\ energy' = energy)
        /\ last'.op = "update"
           => /\ \A i \in 1..Len(units), j \in 1..Len(units') :
                   units[i].id = units'[j].id => units'[j].hp = units[i].hp
              /\ \A i \in 1..Len(towers) : towers'[i].hp = towers[i].hp
              /\ kills' = kills]_vars

\* ---- C6 --------------------------------------------------------------
\* What C6 compares of two outcomes: every unit by id (hp, alive,
\* attackTimer, position), tower hp, kills and gameOver.
SameOutcome(a, b) ==
  /\ {a.units[i] : i \in 1..Len(a.units)} = {b.units[i] : i \in 1..Len(b.units)}
  /\ a.towers = b.towers
  /\ a.kills = b.kills
  /\ a.gameOver = b.gameOver

Permuted(g, p) == [g EXCEPT !.units = [i \in 1..Len(g.units) |-> g.units[p[i]]]]

\* C6: the outcome of update(delta) does not depend on the order in which
\* the live collection is stored: from two states equal up to a permutation
\* of it, update yields states equal up to that permutation.
C6_UpdateOrderIndependent ==
  \A delta \in Deltas : \A p \in Permutations(1..Len(units)) :
    SameOutcome(update(Game, delta).g, update(Permuted(Game, p), delta).g)

\* ---- C7 --------------------------------------------------------------
\* C7: when in one update several units have attackTimer >= attackCooldown
\* and findTarget gives them the same victim unit, the victim's hp after the
\* update is max(0, hp - sum of their dmg): it is still in the live
\* collection exactly with hp - sum > 0, and is gone otherwise (or because
\* its team's tower fell in that update).
C7_SimultaneousDamageSums ==
  [][last'.op = "update"
     => \A v \in 1..Len(units) :
          \A total \in {Pending(Aged(units, last'.args[1]), towers, v)} :
            total > 0
            => IF units[v].id \in UnitIds(units')
               THEN /\ UnitById(units', units[v].id).hp = units[v].hp - total
                    /\ units[v].hp - total > 0
               ELSE \/ units[v].hp - total <= 0
                    \/ (gameOver = NoGameOver
                        /\ gameOver' = Opponent(units[v].team))]_vars

\* An update in which a melee (30) and a ranged unit (16) hit the same
\* victim, which lost exactly 46.
C7_Witness ==
  /\ last.op = "update"
  /\ \E v \in 1..Len(units) :
       /\ units[v].id \in DOMAIN last.log.damageToUnit
       /\ last.log.damageToUnit[units[v].id] = 46
       /\ units[v].hp = units[v].maxHp - 46
       /\ Cardinality({k \in 1..Len(last.log.attacks) :
                         last.log.attacks[k].on.unit = units[v].id}) = 2

\* ---- C8 --------------------------------------------------------------
\* C8: in an update, each unit whose hp goes from > 0 to 0 adds exactly 1
\* to the kill counter of the team opposing it, whatever the number of its
\* attackers, and nothing else changes the counters; the unit is absent
\* from the live collection and from getSnapshot().units after the update.
C8_KillCountedOnceForOpponent ==
  [][IF last'.op # "update" THEN kills' = kills
     ELSE \A t \in Teams :
          \A dead \in {Dying(Aged(units, last'.args[1]), towers, t)} :
            /\ kills'[Opponent(t)] = kills[Opponent(t)] + Cardinality(dead)
            /\ \A v \in dead :
                 /\ units[v].id \notin UnitIds(units')
                 /\ units[v].id \notin UnitIds(getSnapshot(Game).units')]_vars

\* An update has just killed a unit that more than one attacker hit.
C8_Witness ==
  /\ last.op = "update"
  /\ \E id \in last.log.killed :
       /\ id \notin UnitIds(units)
       /\ Cardinality({k \in 1..Len(last.log.attacks) :
                         last.log.attacks[k].on.unit = id}) >= 2
  /\ kills.player + kills.enemy = Cardinality(last.log.killed)

\* ---- C11 -------------------------------------------------------------
\* C11: every per-team per-type cooldown is >= 0 in every reachable state,
\* and no update(delta) lowers a cooldown by more than delta.
C11_CooldownsNonNegativeDecayAtMostDelta ==
  /\ \A t \in Teams, k \in UnitTypes : cooldowns[t][k] >= 0
  /\ [][last'.op = "update"
        => \A t \in Teams, k \in UnitTypes :
             /\ cooldowns'[t][k] >= 0
             /\ cooldowns[t][k] - cooldowns'[t][k] <= last'.args[1]]_vars

\* An update has floored one cooldown at 0 (the delta was larger than what
\* was left of it) while another is still running.
C11_Witness ==
  /\ last.op = "update" /\ last.args[1] = 5 * SEC
  /\ cooldowns.player.melee = 0 /\ energy.player = 150
  /\ cooldowns.enemy.ranged > 0

\* ---- C12 -------------------------------------------------------------
\* The objects reachable from the value getSnapshot() returns.
SnapshotPaths ==
  {"units", "unit", "unit.pos", "unit.flagTarget", "towers", "tower",
   "tower.pos", "energy", "cooldowns", "cooldowns.team", "kills", "flag",
   "gameOver"}

\* getSnapshot() 298-313 by object identity: "fresh" for an object the call
\* allocates (array map, object spread, object literal), "shared" for a
\* reference of the engine copied as it is: u.flagTarget inside { ...u }
\* (299), state.flag (310), state.gameOver (311).
SnapshotObject(path) ==
  IF path \in {"unit.flagTarget", "flag", "gameOver"} THEN "shared" ELSE "fresh"

\* What the holder of a snapshot may store into the object at `path`.
WriteValues(path) ==
  IF path = "gameOver" THEN Teams ELSE {<<0, 0>>, <<1 * PX, 1 * PX>>}

\* The engine's state after the holder of getSnapshot()'s result overwrites
\* the fields of the object at `path` (of unit or tower i) with v: a shared
\* object is the engine's own, a null reference has no object to write.
WrittenThrough(g, path, i, v) ==
  IF SnapshotObject(path) = "fresh" THEN g
  ELSE IF path = "flag"
  THEN IF g.flag = NullPoint THEN g ELSE [g EXCEPT !.flag = v]
  ELSE IF path = "gameOver"
  THEN IF g.gameOver = NoGameOver THEN g ELSE [g EXCEPT !.gameOver = v]
  ELSE IF i \in 1..Len(g.units) /\ g.units[i].flagTarget # NullPoint
  THEN [g EXCEPT !.units[i].flagTarget = v]
  ELSE g

\* C12: no write into the value getSnapshot() returned, or into anything
\* reachable from it (units, their pos and flagTarget, towers, their pos,
\* energy, cooldowns, kills, flag, gameOver), changes the engine's state.
C12_SnapshotIndependent ==
  \A path \in SnapshotPaths : \A i \in 1..Max(1, Len(units)) :
    \A v \in WriteValues(path) : WrittenThrough(Game, path, i, v) = Game

\* ---- C13 -------------------------------------------------------------
\* The energy the units of `team` in `us` cost (cost, Unit.ts 92 and 123).
RECURSIVE CostOf(_, _)
CostOf(us, team) ==
  IF Len(us) = 0 THEN 0
  ELSE (IF us[1].team = team THEN COST(us[1].type) ELSE 0) + CostOf(Tail(us), team)

\* Scenario D as stated: 5.0 s after the start of a game in which no
\* command was issued, both energies are 50 above their initial 200.
C13_ScenarioD_BothEnergiesPlus50 ==
  (commands = 0 /\ time = 5 * SEC)
  => (energy.player = 200 + 50 /\ energy.enemy = 200 + 50)

\* C13: with no command issued, from 5.0 s to before 10.0 s of simulated
\* time the income has been granted exactly once: the player's energy is
\* 250, and the enemy's is 250 less the cost of the units the scripted enemy
\* spawner has bought.
C13_IncomeOnceSpawnerSpends ==
  (commands = 0 /\ 5 * SEC <= time /\ time < 10 * SEC)
  => /\ energy.player = 200 + 50
     /\ energy.enemy = 200 + 50 - CostOf(units, "enemy")
     /\ energyTimer = time - 5 * SEC

\* 5.0 s into a game without commands: the player has 250 and the enemy,
\* whose spawner bought a ranged unit, has 100.
C13_Witness ==
  /\ commands = 0 /\ time = 5 * SEC /\ last.op = "update"
  /\ energy = [player |-> 250, enemy |-> 100]
  /\ Len(units) = 1 /\ units[1].team = "enemy" /\ units[1].type = "ranged"

\* ---- C14 -------------------------------------------------------------
\* Scenario E holds in a state: the live collection is one player melee
\* unit.
LoneMelee(us) ==
  Len(us) = 1 /\ us[1].team = "player" /\ us[1].type = "melee"

\* The unit is within its range of the tower (centre to centre, the test
\* under which the movement phase stops it).
WithinRange(u, tw) ==
  Abs(tw[EnemyTowerIdx(tw, u.team)].x - u.x) <= u.range

\* C14 (Scenario E): once the lone melee unit is within range (18 px) of
\* the enemy tower its position never changes; the tower loses hp only by
\* the unit's dmg (30, down to 0 at least), and only in an update in which
\* the unit is already within range and does not advance.
C14_ScenarioE_StopsThenDamages ==
  [][(LoneMelee(units) /\ LoneMelee(units') /\ last'.op = "update")
     => /\ WithinRange(units[1], towers) => units'[1].x = units[1].x
        /\ towers'[2].hp < towers[2].hp
           => /\ towers'[2].hp = Max(0, towers[2].hp - units[1].dmg)
              /\ WithinRange(units[1], towers)
              /\ units'[1].x = units[1].x]_vars

Attackers(log) == {log.attacks[k].by : k \in 1..Len(log.attacks)}

\* C18: in an update in which a live unit does not attack, its attackTimer
\* grows by exactly delta, whether it moves or holds its position; in an
\* update in which it attacks and the game does not end, it is reset to 0.
C18_AttackTimerIsTimeSinceLastAttack ==
  [][last'.op = "update"
     => \A i \in 1..Len(units), j \in 1..Len(units') :
          units[i].id = units'[j].id
          => IF units[i].id \in Attackers(last'.log)
             THEN gameOver' = NoGameOver => units'[j].attackTimer = 0
             ELSE units'[j].attackTimer = units[i].attackTimer + last'.args[1]]_vars

\* ---- C16 -------------------------------------------------------------
\* C16: the delta of a tick is capped at 0.05 s before it is used: in one
\* update call simulated time, the energy accumulator, every attack timer
\* and every position advance by at most 0.05 s worth, and no cooldown
\* decays by more.
C16_TickAdvancesAtMostFrameCap ==
  [][last'.op = "update"
     => /\ time' - time <= FrameCap
        /\ energyTimer' - energyTimer <= FrameCap
        /\ \A t \in Teams, k \in UnitTypes :
             cooldowns[t][k] - cooldowns'[t][k] <= FrameCap
        /\ \A i \in 1..Len(units), j \in 1..Len(units') :
             units[i].id = units'[j].id
             => /\ units'[j].attackTimer - units[i].attackTimer <= FrameCap
                /\ Abs(units'[j].x - units[i].x) * SEC
                     <= units[i].speed * FrameCap]_vars

\* ---- C17 -------------------------------------------------------------
\* C17: a live unit for which findTarget, on the state the movement phase
\* starts from, returns a unit or a tower does not advance in that update:
\* it keeps its position or is set back behind its blocker.
C17_UnitWithTargetDoesNotAdvance ==
  [][last'.op = "update" /\ gameOver' = NoGameOver
     => \A g3 \in {EnemyAI(Continued(Combat(Timers(Game, last'.args[1]))),
                           last'.args[1])} :
          \A i \in 1..Len(g3.units), j \in 1..Len(units') :
            /\ g3.units[i].id = units'[j].id
            /\ g3.units[i].alive
            /\ findTarget(g3.units[i], g3.units, g3.towers).kind # "none"
            => Dir(g3.units[i].team) * (units'[j].x - g3.units[i].x) <= 0]_vars

\* ---- C19 -------------------------------------------------------------
\* 281-292: the live collection when the sweep reaches sorted[k-1], sorted[k].
RECURSIVE SweptBefore(_, _, _)
SweptBefore(us, sorted, k) ==
  IF k <= 2 THEN us ELSE Separate(SweptBefore(us, sorted, k - 1), sorted, k - 1)

\* The step of the sweep on the pair p (prev), c (cur) of the collection b
\* displaces the member further from its own base, backward, to the gap.
DisplacesTrailing(b, a, p, c) ==
  LET desired == (b[p].size + b[c].size) \div 2 + 1 * PX
  IN  (b[p].team = b[c].team /\ Abs(b[c].x - b[p].x) < desired)
      => /\ \A i \in {p, c} :
              a[i].x # b[i].x
              => /\ \A o \in {p, c} : Dir(b[i].team) * b[i].x >= Dir(b[o].team) * b[o].x
                 /\ Dir(b[i].team) * (a[i].x - b[i].x) < 0
         /\ Abs(a[c].x - a[p].x) = desired

\* C19: in the anti-overlap sweep, for an adjacent same-team pair closer
\* than (sizeA+sizeB)/2 + 1, the unit displaced is the one further from its
\* own base, it moves backward, and the pair ends at the desired gap.
C19_SweepPushesBackTheUnitFurtherFromBase ==
  [][last'.op = "update" /\ gameOver' = NoGameOver
     => \A g3 \in {EnemyAI(Continued(Combat(Timers(Game, last'.args[1]))),
                           last'.args[1])} :
          \A m \in {Movement(g3.units, g3.towers, 1, last'.args[1])} :
            \A sorted \in {SortedByX(m)} :
              \A k \in 2..Len(sorted) :
                \A b \in {SweptBefore(m, sorted, k)} :
                  DisplacesTrailing(b, Separate(b, sorted, k),
                                    sorted[k - 1], sorted[k])]_vars

\* ---- C20 -------------------------------------------------------------
\* The candidates of findTarget: alive, of the other team, strictly ahead.
Candidates(unit, us) ==
  {i \in 1..Len(us) : /\ us[i].alive
                      /\ us[i].team # unit.team
                      /\ Dir(unit.team) * (us[i].x - unit.x) > 0}

Nearest(unit, us) ==
  {i \in Candidates(unit, us) :
     \A j \in Candidates(unit, us) : Abs(us[i].x - unit.x) <= Abs(us[j].x - unit.x)}

UnitInRange(unit, other) ==
  Max(0, Abs(other.x - unit.x) - (unit.size + other.size) \div 2) <= unit.range

TowerInRange(unit, tower) ==
  Max(0, Abs(tower.x - unit.x) - unit.size \div 2) <= unit.range

\* The result r of findTarget(unit, us, tw) is as the claim describes. When
\* several candidates are level at the smallest |dx|, the one selected is
\* any of them.
TargetAsDescribed(unit, us, tw, r) ==
  /\ r.kind = "unit"
     => \E i \in Nearest(unit, us) : us[i].id = r.unit /\ UnitInRange(unit, us[i])
  /\ (Nearest(unit, us) # {} /\ \A i \in Nearest(unit, us) : UnitInRange(unit, us[i]))
     => r.kind = "unit"
  /\ r.kind = "tower"
     => /\ \/ Nearest(unit, us) = {}
           \/ \E i \in Nearest(unit, us) : ~UnitInRange(unit, us[i])
        /\ \E k \in 1..Len(tw) : /\ tw[k].id = r.tower
                                 /\ tw[k].team # unit.team
                                 /\ TowerInRange(unit, tw[k])
  /\ r.kind = "none"
     => /\ \/ Nearest(unit, us) = {}
           \/ \E i \in Nearest(unit, us) : ~UnitInRange(unit, us[i])
        /\ \A k \in 1..Len(tw) : tw[k].team # unit.team => ~TowerInRange(unit, tw[k])
  /\ r.kind \in {"unit", "tower", "none"}

\* C20: findTarget considers only alive opposing units strictly ahead, picks
\* the one with the smallest |dx| and returns it iff its edge distance
\* max(0, |dx| - (sizeA+sizeB)/2) is within range; it returns the opposing
\* tower only when that unit is not in range (or there is none) and the
\* tower is within range of the unit's edge; otherwise it returns nothing.
\* It never returns a dead unit, a unit of the own team, the own tower, or
\* a unit behind or level.
C20_FindTargetCharacterised ==
  last.op = "findTarget"
  => /\ TargetAsDescribed(units[last.args[1]], units, towers, last.ret)
     /\ last.ret.kind = "unit"
        => \A i \in 1..Len(units) :
             units[i].id = last.ret.unit
             => /\ units[i].alive
                /\ units[i].team # units[last.args[1]].team
                /\ Sign(units[i].x - units[last.args[1]].x)
                     = Dir(units[last.args[1]].team)
     /\ last.ret.kind = "tower"
        => \A k \in 1..Len(towers) :
             towers[k].id = last.ret.tower
             => towers[k].team # units[last.args[1]].team

\* findTarget returned a unit although a dead enemy stands nearer ahead.
C20_Witness ==
  /\ last.op = "findTarget"
  /\ last.ret.kind = "unit"
  /\ \E i, j \in 1..Len(units) :
       /\ ~units[i].alive
       /\ units[i].team # units[last.args[1]].team
       /\ units[j].id = last.ret.unit
       /\ Abs(units[i].x - units[last.args[1]].x)
            < Abs(units[j].x - units[last.args[1]].x)
       /\ Dir(units[last.args[1]].team) * (units[i].x - units[last.args[1]].x) > 0

\* ---- C21 -------------------------------------------------------------
\* 222-231: the units added by the update, those with an id not yet given
\* out before it.
AddedUnits(us, firstId) == SelectSeq(us, LAMBDA u : u.id >= firstId)

\* C21: an update grants the income at most once: +50 to each team (the
\* enemy's energy also paying for what its spawner buys in the update) iff
\* the energy accumulator plus delta reaches 5 s, the accumulator then going
\* down by exactly 5 s, whatever the number of thresholds delta spans.
C21_IncomeAtMostOncePerUpdate ==
  [][last'.op = "update"
     => \A income \in {IF energyTimer + last'.args[1] >= 5 * SEC THEN 1 ELSE 0} :
          /\ energyTimer' = energyTimer + last'.args[1] - income * 5 * SEC
          /\ energy'.player = energy.player + 50 * income
          /\ energy'.enemy = energy.enemy + 50 * income
                               - CostOf(AddedUnits(units', nextUnitId), "enemy")]_vars

\* After a first update of 10 s: one income, 5 s left in the accumulator.
C21_Witness ==
  /\ last.op = "update" /\ last.args[1] = 10 * SEC
  /\ time = 10 * SEC /\ commands = 0
  /\ energyTimer = 5 * SEC
  /\ energy.player = 200 + 50

\* ---- C22 -------------------------------------------------------------
\* 224-230: what the scripted enemy buys in the state g: a sequence of at
\* most one unit type.
EnemyChoice(g) ==
  IF g.energy.enemy >= 150 /\ g.cooldowns.enemy.ranged = 0 THEN <<"ranged">>
  ELSE IF g.energy.enemy >= 100 /\ g.cooldowns.enemy.melee = 0 THEN <<"melee">>
  ELSE <<>>

\* The scripted enemy in an update of delta from the state g2 reached after
\* combat, the update ending with the units us and the accumulator acc: a
\* decision only once a second has accumulated, one second used up by each
\* decision.
DecidesOncePerSecond(g2, delta, us, acc) ==
  /\ Len(us) <= 1
  /\ \A k \in 1..Len(us) : us[k].team = "enemy"
  /\ IF g2.enemySpawnAccumulator + delta >= SEC
     THEN /\ acc = g2.enemySpawnAccumulator + delta - SEC
          /\ [k \in 1..Len(us) |-> us[k].type] = EnemyChoice(g2)
     ELSE /\ acc = g2.enemySpawnAccumulator + delta
          /\ Len(us) = 0

\* C22: in an update not ended by game over the scripted enemy decides only
\* when its accumulator has reached 1 s, once per accumulated second: a
\* ranged unit if enemy energy >= 150 and the ranged cooldown is 0, else a
\* melee unit if energy >= 100 and the melee cooldown is 0, else nothing;
\* never a player unit, at most one unit per update.
C22_EnemyDecidesOncePerAccumulatedSecond ==
  [][last'.op = "update" /\ gameOver' = NoGameOver
     => \A g2 \in {Continued(Combat(Timers(Game, last'.args[1])))} :
          DecidesOncePerSecond(g2, last'.args[1],
                               AddedUnits(units', nextUnitId),
                               enemySpawnAccumulator')]_vars

\* ---- C23 -------------------------------------------------------------
\* C23: in the update that sets gameOver nothing happens after the damage
\* is applied and the units not alive are removed: the units left keep
\* their positions and their attack timers (advanced by delta, attackers
\* included), the enemy spawner does not run and no unit is added.
C23_NothingAfterGameOverIsSet ==
  [][last'.op = "update" /\ gameOver = NoGameOver /\ gameOver' # NoGameOver
     => /\ \A j \in 1..Len(units') :
             \E i \in 1..Len(units) :
               /\ units[i].id = units'[j].id
               /\ units'[j].x = units[i].x
               /\ units'[j].attackTimer = units[i].attackTimer + last'.args[1]
               /\ units'[j].alive
        /\ enemySpawnAccumulator' = enemySpawnAccumulator
        /\ nextUnitId' = nextUnitId
        /\ energy'.enemy >= energy.enemy]_vars

\* The update that ended the game: the unit that struck the tower down is
\* still there, its attack timer not reset.
C23_Witness ==
  /\ last.op = "update" /\ gameOver # NoGameOver
  /\ last.log.destroyed # <<>>
  /\ \E j \in 1..Len(units) :
       /\ units[j].id \in Attackers(last.log)
       /\ units[j].attackTimer >= units[j].attackCooldown

\* ---- C24 -------------------------------------------------------------
\* Unit i of us has its attack ready and unit v as its target.
Strikes(us, tw, i, v) == i \in AttackersOf(us, tw, v)

\* The units of us the pending damage brings to hp 0, of either team.
Falling(us, tw) == UNION {Dying(us, tw, t) : t \in Teams}

\* C24: every combat decision of an update reads the state before combat.
\* A unit brought to hp 0 in the update still deals its damage in it when
\* its attack was ready and it had a target: its victim, if it survives, has
\* lost the full pending sum, the striker's share included; and two
\* opposing units that strike each other lethally are both gone after the
\* update, each team's kill counter raised.
C24_DyingUnitsStillStrike ==
  [][last'.op = "update"
     => \A us \in {Aged(units, last'.args[1])} :
          \A falling \in {Falling(us, towers)} :
            \A i \in falling, v \in 1..Len(us) :
              Strikes(us, towers, i, v)
              => /\ us[i].id \in Attackers(last'.log)
                 /\ us[i].id \notin UnitIds(units')
                 /\ \A total \in {Pending(us, towers, v)} :
                      /\ total >= us[i].dmg
                      /\ us[v].id \in UnitIds(units')
                         => UnitById(units', us[v].id).hp = us[v].hp - total
                      /\ us[v].id \notin UnitIds(units')
                         => \/ total >= us[v].hp
                            \/ (gameOver = NoGameOver
                                /\ gameOver' = Opponent(us[v].team))
                 /\ (v \in falling /\ Strikes(us, towers, v, i))
                    => /\ us[v].id \notin UnitIds(units')
                       /\ \A t \in Teams : kills'[t] >= kills[t] + 1]_vars

\* An update in which two units struck each other and both were killed.
C24_Witness ==
  /\ last.op = "update"
  /\ \E k1, k2 \in 1..Len(last.log.attacks) :
       /\ last.log.attacks[k1].on.kind = "unit"
       /\ last.log.attacks[k2].on.kind = "unit"
       /\ last.log.attacks[k1].by = last.log.attacks[k2].on.unit
       /\ last.log.attacks[k2].by = last.log.attacks[k1].on.unit
       /\ {last.log.attacks[k1].by, last.log.attacks[k2].by} \subseteq last.log.killed
  /\ kills.player >= 1 /\ kills.enemy >= 1

\* ---- C25 -------------------------------------------------------------
\* The game g without what setPlayerOrder and placeFlag write (92-96,
\* 102-108): every order "attack", no flag and no flag target.
WithoutOrders(g) ==
  [g EXCEPT !.currentOrder = "attack",
            !.flag = NullPoint,
            !.units = [i \in 1..Len(g.units) |->
                         [g.units[i] EXCEPT !.order = "attack",
                                            !.flagTarget = NullPoint]]]

\* update and spawnUnit do to g, orders apart, what they do to g without
\* its orders; setPlayerOrder and placeFlag change the orders only.
OrdersInformational(g) ==
  /\ \A delta \in Deltas :
       WithoutOrders(update(g, delta).g)
         = WithoutOrders(update(WithoutOrders(g), delta).g)
  /\ \A team \in Teams, type \in UnitTypes :
       /\ WithoutOrders(spawnUnit(g, team, type).g)
            = WithoutOrders(spawnUnit(WithoutOrders(g), team, type).g)
       /\ spawnUnit(g, team, type).ret = spawnUnit(WithoutOrders(g), team, type).ret
  /\ \A order \in Orders : WithoutOrders(setPlayerOrder(g, order)) = WithoutOrders(g)
  /\ \A p \in FlagPoints : WithoutOrders(placeFlag(g, p[1], p[2])) = WithoutOrders(g)

\* C25: orders are informational: two runs with the same updates and
\* spawnUnit calls and different setPlayerOrder / placeFlag calls agree
\* after every step on every unit's position, hp, alive and attackTimer, on
\* the towers' hp, energy, cooldowns, kills and gameOver.  Each step keeps
\* two states that differ in their orders only so.
C25_OrdersAreInformational == OrdersInformational(Game)

\* An update in which a player unit ordered to retreat or to the flag
\* attacked all the same.
C25_Witness ==
  /\ last.op = "update"
  /\ \E i \in 1..Len(units) :
       /\ units[i].team = "player"
       /\ units[i].order \in {"retreat", "moveToFlag"}
       /\ units[i].id \in Attackers(last.log)

\* ---- C26 -------------------------------------------------------------
\* The units of team t in the collection us.
OfTeam(us, t) == SelectSeq(us, LAMBDA u : u.team = t)

\* The successful spawns of team t in the step to the call c, which ended
\* with the units us: a spawnUnit(t, *) that returned true, or the units of
\* t the scripted enemy added in an update (ids from firstId on).
SpawnsIn(c, us, firstId, t) ==
  IF c.op = "spawnUnit" THEN (IF c.ret /\ c.args[1] = t THEN 1 ELSE 0)
  ELSE IF c.op = "update" THEN Len(OfTeam(AddedUnits(us, firstId), t))
  ELSE 0

\* C26: unit conservation while gameOver is null: for each team T the
\* successful spawns of T so far equal the live units of T plus the kills
\* of T's opponent, which every step maintains; a unit leaves the live
\* collection only when its hp reaches 0, and is counted once.
C26_UnitConservation ==
  /\ \A t \in Teams : Len(OfTeam(units, t)) + kills[Opponent(t)] = 0
  /\ [][gameOver' = NoGameOver
        => /\ \A t \in Teams :
                Len(OfTeam(units', t)) + kills'[Opponent(t)]
                  = Len(OfTeam(units, t)) + kills[Opponent(t)]
                    + SpawnsIn(last', units', nextUnitId, t)
           /\ \A i \in 1..Len(units) :
                units[i].id \notin UnitIds(units')
                => /\ last'.op = "update"
                   /\ i \in Falling(Aged(units, last'.args[1]), towers)
                   /\ kills'[Opponent(units[i].team)] > kills[Opponent(units[i].team)]
           /\ \A i, j \in 1..Len(units') :
                units'[i].id = units'[j].id => i = j]_vars

\* The game goes on, each team has lost a unit and has units in the field.
C26_Witness ==
  /\ gameOver = NoGameOver
  /\ kills.player >= 1 /\ kills.enemy >= 1
  /\ Len(units) >= 1
  /\ last.op = "update" /\ last.log.killed # {}

====
